---- MODULE Spec2Model ----
(***************************************************************************)
(* Model of sitemap_extractor.py: the fetcher (read_sitemap), the document *)
(* classifier (is_sitemap_index), the extractors and the recursive         *)
(* resolver (extract_all_urls) driven by main.                             *)
(*                                                                         *)
(* A string is a sequence of tokens; a token is a TLA+ string standing for *)
(* a run of characters (" " is one whitespace character).  A document is   *)
(* what xml.etree.ElementTree makes of its text: well-formed or not, the   *)
(* default namespace it declares, its root element and its descendant      *)
(* elements in document order.  An element carries the namespace bound to  *)
(* its prefix ("" when it has no prefix), its local name and its text      *)
(* (<<>> when ElementTree gives None).                                     *)
(***************************************************************************)
EXTENDS Integers, Sequences, FiniteSets, TLC

\* ---------------------------------------------------------------- bounds
\* Longest list of loc entries of an index document of a graph world.
MaxChildren == 2
\* Chain worlds nest index documents up to MAX_SITEMAP_DEPTH + ChainExtra deep.
ChainExtra == 1

\* ------------------------------------------------------ program constants
MAX_SITEMAP_DEPTH == 20
\* range(3) of the retry loop
MaxAttempts == 3

\* ---------------------------------------------------------------- strings
Whitespace == {" ", "\n", "\t"}

Min(S) == CHOOSE x \in S : \A y \in S : x <= y

Max(S) == CHOOSE x \in S : \A y \in S : x >= y

\* str.strip(): the string without its leading and trailing whitespace.
strip(s) ==
  LET keep == {i \in 1..Len(s) : s[i] \notin Whitespace}
  IN  IF keep = {} THEN <<>> ELSE SubSeq(s, Min(keep), Max(keep))

\* str.startswith(p), p a single token
startswith(s, p) == Len(s) >= 1 /\ s[1] = p

\* str.endswith(p), p a single token
endswith(s, p) == Len(s) >= 1 /\ s[Len(s)] = p

\* ------------------------------------------------------------- exceptions
\* type: the exception class; cause: what the message carries.
Exc(type, cause) == [type |-> type, cause |-> cause]

NoExc == Exc("none", "None")

\* Mutant: handlers that catch the failures of the network only.
IsException_network(e) == e.type \in {"RequestException", "Error"}

\* Mutant: an Exit that no "except Exception" clause catches.
IsException_noexit(e) == e.type \in {"RequestException", "OSError", "EOFError", "Error"}

\* except Exception: every class the model raises derives from Exception
\* (click's Exit is a RuntimeError).
IsException(e) == e.type \in {"RequestException", "OSError", "Exit", "EOFError", "Error"}

\* Mutant: a handler that catches no fetch failure.
IsRequestException_never(e) == FALSE

\* except requests.RequestException
IsRequestException(e) == e.type = "RequestException"

Return(v) == [kind |-> "return", value |-> v, exc |-> NoExc]

Raise(e) == [kind |-> "raise", value |-> <<>>, exc |-> e]

\* -------------------------------------------------------------- documents
Elem(pfx, name, text) == [pfx |-> pfx, name |-> name, text |-> text]

\* Element.tag as ElementTree spells it: "{uri}local", or "local" without a
\* namespace.  An unprefixed element is in the default namespace.
tag(e, xmlns) ==
  LET uri == IF e.pfx # "" THEN e.pfx ELSE xmlns
  IN  IF uri # "" THEN <<"{", uri, "}">> \o e.name ELSE e.name

\* root.findall(loc_tag, ns): the descendants whose tag is loc in the namespace
\* of the root (ns given) or loc in no namespace, in document order.
findall(xml, loc_tag) ==
  LET match(e) == tag(e, xml.xmlns) = loc_tag
  IN  SelectSeq(xml.elems, match)

\* Mutant: the plain path "loc" whatever the tag of the root.
loc_tag_plain(xml) == <<"loc">>

\* lines 213-219 and 231-237: the path that selects the loc elements
loc_tag(xml) ==
  LET root_tag == tag(xml.root, xml.xmlns)
  IN  IF startswith(root_tag, "{")
        THEN <<"{", root_tag[2], "}", "loc">>
        ELSE <<"loc">>

\* [elem.text.strip() for elem in root.findall(loc_tag, ns) if elem.text]
loc_texts(xml) ==
  LET found == findall(xml, loc_tag(xml))
      truthy(e) == e.text # <<>>
      kept == SelectSeq(found, truthy)
  IN  [i \in 1..Len(kept) |-> strip(kept[i].text)]

is_sitemap_index(xml_content) ==
  IF ~xml_content.wellformed
    THEN FALSE
    ELSE endswith(tag(xml_content.root, xml_content.xmlns), "sitemapindex")

extract_sitemaps_from_index(xml_content) ==
  IF ~xml_content.wellformed
    THEN Raise(Exc("Exit", "1"))
    ELSE Return(loc_texts(xml_content))

extract_urls_from_sitemap(xml_content) ==
  IF ~xml_content.wellformed
    THEN Raise(Exc("Exit", "1"))
    ELSE Return(loc_texts(xml_content))

\* ----------------------------------------------------------------- worlds
\* Source identifiers: one remote locator and two local paths.
SrcA == <<"http://", "a">>

SrcB == <<"b">>

SrcC == <<"c">>

GraphSources == {SrcA, SrcB, SrcC}

\* The local path of the k-th document of a chain world: "d" repeated k + 1 times.
ChainSrc(k) == [i \in 1..(k + 1) |-> "d"]

SitemapNS == "http://www.sitemaps.org/schemas/sitemap/0.9"

\* The URLs a leaf document of each source lists.
UrlsOf(s) ==
  IF s = SrcA THEN << <<"https://", "a1">>, <<"https://", "a2">> >>
  ELSE IF s = SrcB THEN << <<"https://", "b1">> >>
  ELSE IF s = SrcC THEN << <<"https://", "c1">> >>
  ELSE << <<"https://", "d1">> >>

\* <urlset xmlns=SitemapNS> with one <url><loc> per URL
LeafDoc(locs) ==
  [wellformed |-> TRUE, xmlns |-> SitemapNS,
   root |-> Elem("", <<"urlset">>, <<>>),
   elems |-> [i \in 1..Len(locs) |-> Elem("", <<"loc">>, <<"\n">> \o locs[i] \o <<" ">>)]]

\* <sitemapindex xmlns=SitemapNS> with one <sitemap><loc> per child
IndexDoc(children) ==
  [wellformed |-> TRUE, xmlns |-> SitemapNS,
   root |-> Elem("", <<"sitemapindex">>, <<>>),
   elems |-> [i \in 1..Len(children) |-> Elem("", <<"loc">>, <<" ">> \o children[i] \o <<"\n">>)]]

\* text that ET.fromstring rejects with ParseError
Malformed ==
  [wellformed |-> FALSE, xmlns |-> "", root |-> Elem("", <<>>, <<>>), elems |-> <<>>]

SeqsUpTo(S, n) == UNION {[1..k -> S] : k \in 0..n}

GraphDocs(s) ==
  {LeafDoc(UrlsOf(s)), Malformed}
    \cup {IndexDoc(c) : c \in SeqsUpTo(GraphSources, MaxChildren)}

\* Every assignment of a leaf, a malformed document or an index (of any of the
\* three sources, cycles and repeated references included) to SrcA and SrcB;
\* SrcC is a leaf or malformed.
GraphWorlds ==
  {[s \in GraphSources |-> IF s = SrcA THEN a ELSE IF s = SrcB THEN b ELSE c] :
     a \in GraphDocs(SrcA), b \in GraphDocs(SrcB),
     c \in {LeafDoc(UrlsOf(SrcC)), Malformed}}

\* n nested index documents ChainSrc(0) .. ChainSrc(n-1), each listing the next,
\* the first listing SrcB after it; ChainSrc(n) and SrcB are leaves.
ChainWorld(n) ==
  [s \in {ChainSrc(k) : k \in 0..n} \cup {SrcB} |->
     IF s = SrcB THEN LeafDoc(UrlsOf(SrcB))
     ELSE IF Len(s) = n + 1 THEN LeafDoc(UrlsOf(s))
     ELSE IF Len(s) = 1 THEN IndexDoc(<<ChainSrc(1), SrcB>>)
     ELSE IndexDoc(<<ChainSrc(Len(s))>>)]

ChainWorlds ==
  {ChainWorld(n) : n \in (MAX_SITEMAP_DEPTH - 1)..(MAX_SITEMAP_DEPTH + ChainExtra)}

\* ------------------------------------------------------------------ state
VARIABLES
  docs,                 \* the content behind each source identifier that exists
  PLAYWRIGHT_AVAILABLE, \* lines 26-30: whether the import succeeded
  source,               \* main's source argument (<<>>: not given)
  args,                 \* main's options: interactive, format, output
  out_exc,              \* the exception output_urls raised in main's try block
  first,                \* what an earlier top-level call gave (<<>>: there was none)
  pc,                   \* main's position
  stack,                \* the activations of extract_all_urls, innermost last
  visited,              \* the set object shared by the activations
  rs,                   \* the activation of read_sitemap, if any
  fetched,              \* the sources read_sitemap was called with, in order
  failed,               \* the sources for which read_sitemap raised
  warnings,             \* the warnings extract_all_urls has echoed, in order
  urls,                 \* main's urls
  raised,               \* the exception that reached main's try block
  exit_code             \* the process's exit code (-1: still running)

vars ==
  <<docs, PLAYWRIGHT_AVAILABLE, source, args, out_exc, first, pc, stack, visited, rs, fetched,
    failed, warnings, urls, raised, exit_code>>

Frame(src, depth, visited_none) ==
  [source |-> src, depth |-> depth, visited_none |-> visited_none,
   pc |-> "enter", child_sitemaps |-> <<>>, i |-> 1, all_urls |-> <<>>]

RsIdle ==
  [pc |-> "idle", source |-> <<>>, attempt |-> 0, last_exc |-> NoExc,
   requests |-> 0, failures |-> 0, last_failure |-> NoExc,
   sleeps |-> <<>>, browser |-> "none", closes |-> 0,
   nav_failed |-> FALSE, confirmed |-> FALSE, captured |-> FALSE,
   result |-> Return(<<>>)]

Warning(kind, src) == [kind |-> kind, src |-> src]

IsRemote(src) == startswith(src, "http://") \/ startswith(src, "https://")

Top == stack[Len(stack)]

\* ------------------------------------------------------------------- init
\* The process has started and main has not run yet.
Started ==
  /\ pc = "start"
  /\ stack = <<>>
  /\ visited = {}
  /\ rs = RsIdle
  /\ fetched = <<>>
  /\ failed = {}
  /\ warnings = <<>>
  /\ urls = <<>>
  /\ raised = NoExc
  /\ out_exc = NoExc
  /\ first = <<>>
  /\ exit_code = -1

\* lines 377-379: the options as typer defaults them: no output path, the txt
\* format, not interactive.
DefaultArgs == [interactive |-> FALSE, format |-> "txt", output |-> FALSE]

\* The sources the documents of w lead to from the sources of S.
RECURSIVE Reach(_, _)
Reach(w, S) ==
  LET listed(s) == IF s \in DOMAIN w /\ is_sitemap_index(w[s])
                     THEN {loc_texts(w[s])[i] : i \in 1..Len(loc_texts(w[s]))}
                     ELSE {}
      T == S \cup UNION {listed(s) : s \in S}
  IN  IF T = S THEN S ELSE Reach(w, T)

\* A world and a source argument; the documents the source does not lead to
\* are never read, and are leaves.
Init ==
  /\ docs \in GraphWorlds \cup ChainWorlds
  /\ PLAYWRIGHT_AVAILABLE \in BOOLEAN
  /\ source \in (IF SrcA \in DOMAIN docs THEN GraphSources ELSE {ChainSrc(0)}) \cup {<<>>}
  /\ args = DefaultArgs
  /\ \A s \in DOMAIN docs \ Reach(docs, {source}) : docs[s] = LeafDoc(UrlsOf(s))
  /\ Started

\* ------------------------------------------------------------ read_sitemap
\* line 112: the activation read_sitemap(src) starts with
RsCall(src) ==
  [RsIdle EXCEPT !.source = src,
                 !.pc = IF IsRemote(src) THEN "attempt" ELSE "open"]

\* lines 193-194: open() and read a local path; an absent or unreadable file
\* raises OSError.
RS_Open ==
  /\ rs.pc = "open"
  /\ \E readable \in BOOLEAN :
       rs' = [rs EXCEPT
                !.pc = "done",
                !.result = IF readable /\ rs.source \in DOMAIN docs
                             THEN Return(docs[rs.source])
                             ELSE Raise(Exc("OSError", "open"))]
  /\ UNCHANGED <<docs, PLAYWRIGHT_AVAILABLE, source, args, out_exc, first, pc, stack, visited, fetched,
                 failed, warnings, urls, raised, exit_code>>

\* The cause of the failure of the attempt numbered n (0-based): the exception
\* requests.get raised, or the non-success status it returned.
AttemptExc(n) == Exc("Error", <<"error 1", "error 2", "error 3">>[n + 1])

\* What the failure of the attempt numbered n was when it was a status.
AttemptStatus(n) == Exc("Status", <<"status 1", "status 2", "status 3">>[n + 1])

\* lines 139-149: what one pass of the try statement does with the outcome of
\* requests.get: 200, another status, or an exception.
\* requests counts the calls of requests.get, failures those that failed, and
\* last_failure is the cause of the latest failure.
AfterAttempt(r, outcome) ==
  IF outcome = "ok"
    THEN [r EXCEPT !.pc = "done", !.requests = @ + 1,
                   !.result = Return(docs[r.source])]
  ELSE IF outcome = "status"
    THEN [r EXCEPT !.pc = "sleep", !.requests = @ + 1, !.failures = @ + 1,
                   !.last_failure = AttemptStatus(r.attempt)]
  ELSE [r EXCEPT !.pc = "sleep", !.requests = @ + 1, !.failures = @ + 1,
                 !.last_failure = AttemptExc(r.attempt),
                 !.last_exc = AttemptExc(r.attempt)]

\* lines 115-149: one automated attempt
RS_Attempt ==
  /\ rs.pc = "attempt"
  /\ \E outcome \in {"ok", "status", "error"} :
       /\ outcome = "ok" => rs.source \in DOMAIN docs
       /\ rs' = AfterAttempt(rs, outcome)
  /\ UNCHANGED <<docs, PLAYWRIGHT_AVAILABLE, source, args, out_exc, first, pc, stack, visited, fetched,
                 failed, warnings, urls, raised, exit_code>>

\* line 150 and the loop header: the sleep that ends a failed pass, then the
\* next pass or the end of the loop.
AfterSleep(r) ==
  [r EXCEPT !.sleeps = Append(@, r.attempt),
            !.attempt = @ + 1,
            !.pc = IF r.attempt + 1 < MaxAttempts THEN "attempt" ELSE "fallback"]

RS_Sleep ==
  /\ rs.pc = "sleep"
  /\ rs' = AfterSleep(rs)
  /\ UNCHANGED <<docs, PLAYWRIGHT_AVAILABLE, source, args, out_exc, first, pc, stack, visited, fetched,
                 failed, warnings, urls, raised, exit_code>>

\* line 191: the error raised when no fallback is available
FetchFailed(r) == Exc("RequestException", r.last_exc.cause)

\* lines 186-188: the outer handler of the fallback wraps any exception
PlaywrightFailed(e) == Exc("RequestException", e.cause)

\* Mutant: the fallback entered without looking at PLAYWRIGHT_AVAILABLE.
AfterLoop_nocheck(r, available) == [r EXCEPT !.pc = "launch"]

\* lines 152-154 and 189-191: after the loop
AfterLoop(r, available) ==
  IF available
    THEN [r EXCEPT !.pc = "launch"]
    ELSE [r EXCEPT !.pc = "done", !.result = Raise(FetchFailed(r))]

RS_Fallback ==
  /\ rs.pc = "fallback"
  /\ rs' = AfterLoop(rs, PLAYWRIGHT_AVAILABLE)
  /\ UNCHANGED <<docs, PLAYWRIGHT_AVAILABLE, source, args, out_exc, first, pc, stack, visited, fetched,
                 failed, warnings, urls, raised, exit_code>>

\* lines 156-163: start Playwright and launch the browser, then the context,
\* the page and the stealth script; a failure of launch leaves no browser, a
\* failure of a later call leaves it open, and both reach the outer handler.
RS_Launch ==
  /\ rs.pc = "launch"
  /\ \E outcome \in {"ok", "launch_fails", "setup_fails"} :
       rs' = IF outcome = "ok"
               THEN [rs EXCEPT !.pc = "goto", !.browser = "open"]
             ELSE IF outcome = "launch_fails"
               THEN [rs EXCEPT !.pc = "done",
                               !.result = Raise(PlaywrightFailed(Exc("Error", "launch")))]
             ELSE [rs EXCEPT !.pc = "done", !.browser = "open",
                             !.result = Raise(PlaywrightFailed(Exc("Error", "setup")))]
  /\ UNCHANGED <<docs, PLAYWRIGHT_AVAILABLE, source, args, out_exc, first, pc, stack, visited, fetched,
                 failed, warnings, urls, raised, exit_code>>

\* Mutant: the content taken right after the navigation, without the prompt.
RS_Goto_direct ==
  /\ rs.pc = "goto"
  /\ \E nav_ok \in BOOLEAN :
       rs' = [rs EXCEPT !.pc = "capture", !.nav_failed = ~nav_ok]
  /\ UNCHANGED <<docs, PLAYWRIGHT_AVAILABLE, source, args, out_exc, first, pc, stack, visited, fetched,
                 failed, warnings, urls, raised, exit_code>>

\* lines 164-175: navigate; a failure is echoed and sets nav_failed, a scroll
\* error is ignored.
RS_Goto ==
  /\ rs.pc = "goto"
  /\ \E nav_ok \in BOOLEAN :
       rs' = [rs EXCEPT !.pc = "input", !.nav_failed = ~nav_ok]
  /\ UNCHANGED <<docs, PLAYWRIGHT_AVAILABLE, source, args, out_exc, first, pc, stack, visited, fetched,
                 failed, warnings, urls, raised, exit_code>>

\* line 176: input() returns when the user presses Enter, or raises EOFError
\* when standard input is closed; the outer handler wraps it.
RS_Input ==
  /\ rs.pc = "input"
  /\ \E entered \in BOOLEAN :
       rs' = IF entered
               THEN [rs EXCEPT !.pc = "capture", !.confirmed = TRUE]
               ELSE [rs EXCEPT !.pc = "done",
                               !.result = Raise(PlaywrightFailed(Exc("EOFError", "input")))]
  /\ UNCHANGED <<docs, PLAYWRIGHT_AVAILABLE, source, args, out_exc, first, pc, stack, visited, fetched,
                 failed, warnings, urls, raised, exit_code>>

\* lines 177-188: page.content(), browser.close(), return; or close and raise
\* RequestException, which the outer handler wraps again.
RS_Capture ==
  /\ rs.pc = "capture"
  /\ \E content_ok \in BOOLEAN :
       /\ content_ok => rs.source \in DOMAIN docs
       /\ rs' = IF content_ok
                  THEN [rs EXCEPT !.pc = "done", !.captured = TRUE,
                                  !.browser = "closed", !.closes = @ + 1,
                                  !.result = Return(docs[rs.source])]
                  ELSE [rs EXCEPT !.pc = "done",
                                  !.browser = "closed", !.closes = @ + 1,
                                  !.result = Raise(PlaywrightFailed(Exc("RequestException", "content")))]
  /\ UNCHANGED <<docs, PLAYWRIGHT_AVAILABLE, source, args, out_exc, first, pc, stack, visited, fetched,
                 failed, warnings, urls, raised, exit_code>>

\* -------------------------------------------------------- extract_all_urls
\* Mutant: the URLs of a child put before those of its earlier siblings.
extend_front(all_urls, more) == more \o all_urls

\* line 266: all_urls.extend(result of the child)
extend(all_urls, more) == all_urls \o more

\* Mutant: a loop that never leaves its first child.
next_child_stuck(i) == i

\* line 263: the for statement moves to the next child
next_child(i) == i + 1

\* What the callers of the innermost activation do with its result res: main
\* binds urls or catches the exception (lines 391-400); an activation in its
\* loop extends all_urls, or catches the exception, warns and continues (lines
\* 265-269), and moves to the next child.  An exception the loop does not
\* catch ends that activation too.
RECURSIVE Deliver(_, _)
Deliver(rest, res) ==
  IF rest = <<>>
    THEN [stack |-> <<>>, pc |-> "returned", urls |-> res.value, raised |-> res.exc,
          warn |-> <<>>]
    ELSE
      LET caller == rest[Len(rest)]
          child == caller.child_sitemaps[caller.i]
          next == [caller EXCEPT !.i = next_child(@),
                                 !.all_urls = IF res.kind = "return"
                                                THEN extend(@, res.value) ELSE @]
      IN  IF res.kind = "raise" /\ ~IsException(res.exc)
            THEN Deliver(SubSeq(rest, 1, Len(rest) - 1), res)
            ELSE [stack |-> [rest EXCEPT ![Len(rest)] = next], pc |-> pc,
                  urls |-> urls, raised |-> raised,
                  warn |-> IF res.kind = "raise"
                             THEN <<Warning("child", child)>> ELSE <<>>]

\* Mutant: a visited set made anew in every activation.
Guard_fresh(f, seen) ==
  [skip |-> FALSE, visited |-> {f.source}]

\* Mutant: a set that outlives the call, as a mutable default argument would.
Guard_kept(f, seen) ==
  [skip |-> f.source \in seen, visited |-> seen \cup {f.source}]

\* Mutant: a guard that never skips.
Guard_noskip(f, seen) ==
  LET v == IF f.visited_none THEN {} ELSE seen
  IN  [skip |-> FALSE, visited |-> v \cup {f.source}]

\* lines 246-250: the cycle guard, then the call of read_sitemap (line 252)
Guard(f, seen) ==
  LET v == IF f.visited_none THEN {} ELSE seen
  IN  [skip |-> f.source \in v, visited |-> v \cup {f.source}]

EAU_Enter ==
  /\ stack # <<>>
  /\ Top.pc = "enter"
  /\ LET g == Guard(Top, visited)
         d == Deliver(SubSeq(stack, 1, Len(stack) - 1), Return(<<>>))
     IN  IF g.skip
           THEN /\ stack' = d.stack
                /\ pc' = d.pc
                /\ urls' = d.urls
                /\ raised' = d.raised
                /\ UNCHANGED <<visited, rs, fetched>>
           ELSE /\ visited' = g.visited
                /\ stack' = [stack EXCEPT ![Len(stack)].pc = "read"]
                /\ rs' = RsCall(Top.source)
                /\ fetched' = Append(fetched, Top.source)
                /\ UNCHANGED <<pc, urls, raised>>
  /\ UNCHANGED <<docs, PLAYWRIGHT_AVAILABLE, source, args, out_exc, first, failed, warnings, exit_code>>

\* Mutant: no limit at all.
depth_exceeded_never(depth) == FALSE

\* Mutant: the limit taken one level too deep.
depth_exceeded_gt(depth) == depth > MAX_SITEMAP_DEPTH

\* line 257
depth_exceeded(depth) == depth >= MAX_SITEMAP_DEPTH

\* lines 251-261 and 271-276: what the activation f does once read_sitemap has
\* ended with r: [done, res, warn] when the activation ends, else the frame of
\* the loop.
Dispatch(f, r) ==
  IF r.kind = "raise"
    THEN IF IsRequestException(r.exc)
           THEN [done |-> TRUE, res |-> Return(<<>>), frame |-> f,
                 warn |-> <<Warning("fetch", f.source)>>]
           ELSE [done |-> TRUE, res |-> r, frame |-> f, warn |-> <<>>]
  ELSE IF is_sitemap_index(r.value)
    THEN IF depth_exceeded(f.depth)
           THEN [done |-> TRUE, res |-> Return(<<>>), frame |-> f,
                 warn |-> <<Warning("depth", f.source)>>]
           ELSE LET c == extract_sitemaps_from_index(r.value)
                IN  IF c.kind = "raise"
                      THEN [done |-> TRUE, res |-> c, frame |-> f, warn |-> <<>>]
                      ELSE [done |-> FALSE, res |-> c,
                            frame |-> [f EXCEPT !.pc = "loop",
                                                !.child_sitemaps = c.value],
                            warn |-> <<>>]
  ELSE LET u == extract_urls_from_sitemap(r.value)
       IN  IF u.kind = "raise" /\ IsException(u.exc)
             THEN [done |-> TRUE, res |-> Return(<<>>), frame |-> f,
                   warn |-> <<Warning("parse", f.source)>>]
             ELSE [done |-> TRUE, res |-> u, frame |-> f, warn |-> <<>>]

EAU_Dispatch ==
  /\ stack # <<>>
  /\ Top.pc = "read"
  /\ rs.pc = "done"
  /\ LET x == Dispatch(Top, rs.result)
         d == Deliver(SubSeq(stack, 1, Len(stack) - 1), x.res)
     IN  IF x.done
           THEN /\ stack' = d.stack
                /\ pc' = d.pc
                /\ urls' = d.urls
                /\ raised' = d.raised
                /\ warnings' = warnings \o x.warn \o d.warn
           ELSE /\ stack' = [stack EXCEPT ![Len(stack)] = x.frame]
                /\ warnings' = warnings \o x.warn
                /\ UNCHANGED <<pc, urls, raised>>
  /\ rs' = RsIdle
  /\ failed' = IF rs.result.kind = "raise" THEN failed \cup {Top.source} ELSE failed
  /\ UNCHANGED <<docs, PLAYWRIGHT_AVAILABLE, source, args, out_exc, first, visited, fetched, exit_code>>

\* lines 263-270: the next child is resolved one level deeper with the same
\* visited set; after the last one the activation returns all_urls.
EAU_Loop ==
  /\ stack # <<>>
  /\ Top.pc = "loop"
  /\ IF Top.i <= Len(Top.child_sitemaps)
       THEN /\ stack' = Append(stack, Frame(Top.child_sitemaps[Top.i], Top.depth + 1, FALSE))
            /\ UNCHANGED <<pc, urls, raised>>
       ELSE LET d == Deliver(SubSeq(stack, 1, Len(stack) - 1), Return(Top.all_urls))
            IN  /\ stack' = d.stack
                /\ pc' = d.pc
                /\ urls' = d.urls
                /\ raised' = d.raised
  /\ UNCHANGED <<docs, PLAYWRIGHT_AVAILABLE, source, args, out_exc, first, visited, rs, fetched, failed,
                 warnings, exit_code>>

\* -------------------------------------------------------------------- main
\* lines 385-392: in interactive mode the prompts give the source (lines
\* 326-362); else without a source main exits with 1; then extract_all_urls
\* is called with the default depth and no visited set.
MainStart ==
  /\ pc = "start"
  /\ IF ~args.interactive /\ source = <<>>
       THEN /\ pc' = "exit"
            /\ exit_code' = 1
            /\ UNCHANGED stack
       ELSE /\ pc' = "extract"
            /\ stack' = <<Frame(source, 0, TRUE)>>
            /\ UNCHANGED exit_code
  /\ UNCHANGED <<docs, PLAYWRIGHT_AVAILABLE, source, args, out_exc, first, visited, rs, fetched, failed,
                 warnings, urls, raised>>

Formats == {"txt", "json", "csv", "xlsx", "yaml"}

\* output_urls, lines 279-314: writing to the output path raises OSError when
\* the write fails; xlsx without a path prints a notice; an unsupported format
\* raises Exit(1).
output_urls(fmt, output, write_ok) ==
  IF fmt \in Formats
    THEN IF output /\ ~write_ok THEN Raise(Exc("OSError", "write")) ELSE Return(<<>>)
    ELSE Raise(Exc("Exit", "1"))

\* Mutant: an empty result that ends the run like a success.
MainExit_empty(res, out) ==
  IF res.kind = "raise" THEN 1
  ELSE IF res.value = <<>> THEN 0
  ELSE IF out.kind = "raise" THEN 1
  ELSE 0

\* lines 361-371, 387 and 393-400: the exit code once extract_all_urls has
\* ended with res and output_urls, if it is reached, with out: any exception of
\* the try block, the Exit(1) of an empty result included, is caught and
\* turned into Exit(1); else main returns, or raises Exit() after
\* interactive_mode, and the code is 0.
MainExit(res, out) ==
  IF res.kind = "raise" THEN 1
  ELSE IF res.value = <<>> THEN 1
  ELSE IF out.kind = "raise" THEN 1
  ELSE 0

MainFinish ==
  /\ pc = "returned"
  /\ \E write_ok \in BOOLEAN :
       LET res == IF raised = NoExc THEN Return(urls) ELSE Raise(raised)
           out == output_urls(args.format, args.output, write_ok)
       IN  /\ exit_code' = MainExit(res, out)
           /\ out_exc' = IF res.kind = "return" /\ res.value # <<>>
                           THEN out.exc ELSE NoExc
  /\ pc' = "exit"
  /\ UNCHANGED <<docs, PLAYWRIGHT_AVAILABLE, source, args, first, stack, visited, rs, fetched,
                 failed, warnings, urls, raised>>

Next ==
  \/ MainStart
  \/ EAU_Enter
  \/ RS_Open
  \/ RS_Attempt
  \/ RS_Sleep
  \/ RS_Fallback
  \/ RS_Launch
  \/ RS_Goto
  \/ RS_Input
  \/ RS_Capture
  \/ EAU_Dispatch
  \/ EAU_Loop
  \/ MainFinish

Spec == Init /\ [][Next]_vars


\* ------------------------------------------------ extractor specification
\* One local document of any small shape: with or without a default
\* namespace, a root with or without a prefix, and up to MaxElems descendant
\* elements, each loc or not, prefixed or not, with absent, blank, bare or
\* padded text.
MaxElems == 2

PrefixNS == "urn:x"

Texts == {<<>>, <<" ">>, <<"u">>, <<" ", "u", "\n">>, <<"u", " ", "v">>}

XmlElems ==
  {Elem(p, n, t) : p \in {"", PrefixNS}, n \in {<<"loc">>, <<"lastmod">>}, t \in Texts}

XmlDocs ==
  {[wellformed |-> TRUE, xmlns |-> d, root |-> Elem(p, n, <<>>), elems |-> e] :
     d \in {"", SitemapNS}, p \in {"", PrefixNS},
     n \in {<<"urlset">>, <<"sitemapindex">>}, e \in SeqsUpTo(XmlElems, MaxElems)}
    \cup {Malformed}

ExtractInit ==
  /\ docs \in [{SrcB} -> XmlDocs]
  /\ PLAYWRIGHT_AVAILABLE = FALSE
  /\ source = SrcB
  /\ args = DefaultArgs
  /\ Started

LocalNext ==
  \/ MainStart
  \/ EAU_Enter
  \/ RS_Open
  \/ EAU_Dispatch
  \/ EAU_Loop
  \/ MainFinish

SpecExtract == ExtractInit /\ [][LocalNext]_vars

\* ------------------------------------------------- termination specification
\* The worlds of two local documents, each a leaf, malformed or an index of
\* any of the two (itself included), resolved with the steps that involve no
\* remote source, under weak fairness: the interpreter keeps running and every
\* read of a file ends.
LocalSources == {SrcB, SrcC}

LocalDocs(s) ==
  {LeafDoc(UrlsOf(s)), Malformed}
    \cup {IndexDoc(c) : c \in SeqsUpTo(LocalSources, MaxChildren)}

LocalWorlds ==
  {[s \in LocalSources |-> IF s = SrcB THEN b ELSE c] :
     b \in LocalDocs(SrcB), c \in LocalDocs(SrcC)}

FairInit ==
  /\ docs \in LocalWorlds
  /\ PLAYWRIGHT_AVAILABLE = FALSE
  /\ source \in LocalSources
  /\ args = DefaultArgs
  /\ \A s \in DOMAIN docs \ Reach(docs, {source}) : docs[s] = LeafDoc(UrlsOf(s))
  /\ Started

FairSpec == FairInit /\ [][LocalNext]_vars /\ WF_vars(LocalNext)

\* ------------------------------------------- two calls in one process
\* lines 242-250: a caller that, once extract_all_urls(source) has ended, calls
\* it again with the same source and no visited argument; what the first call
\* read, warned and gave is set aside in first.  The set of the first call is
\* not handed over: the new activation is entered with visited None.
CallAgain ==
  /\ pc = "returned"
  /\ first = <<>>
  /\ first' = <<[urls |-> urls, raised |-> raised, fetched |-> fetched,
                 failed |-> failed, warnings |-> warnings]>>
  /\ pc' = "extract"
  /\ stack' = <<Frame(source, 0, TRUE)>>
  /\ fetched' = <<>>
  /\ failed' = {}
  /\ warnings' = <<>>
  /\ urls' = <<>>
  /\ raised' = NoExc
  /\ UNCHANGED <<docs, PLAYWRIGHT_AVAILABLE, source, args, out_exc, visited, rs, exit_code>>

NextTwice ==
  \/ LocalNext
  \/ CallAgain

SpecTwice == FairInit /\ [][NextTwice]_vars

\* ---------------------------------------------------- main specification
\* Three local files: SrcB is a leaf, malformed or an index of the two others,
\* SrcC a leaf or malformed, ChainSrc(0) a leaf; with every combination of the
\* options of main and with or without a source argument.
\* lines 376-379 and 326-357: the options main is called with, or the answers
\* to the prompts of interactive_mode, which offer the five formats only.
ArgSets ==
  {a \in [interactive : BOOLEAN, format : {"txt", "xlsx", "pdf"}, output : BOOLEAN] :
     a.interactive => a.format \in Formats}

MainSources == {SrcB, SrcC, ChainSrc(0)}

MainWorlds ==
  {[s \in MainSources |-> IF s = SrcB THEN b ELSE IF s = SrcC THEN c
                          ELSE LeafDoc(UrlsOf(s))] :
     b \in {LeafDoc(UrlsOf(SrcB)), Malformed}
             \cup {IndexDoc(ch) : ch \in SeqsUpTo({SrcC, ChainSrc(0)}, MaxChildren)},
     c \in {LeafDoc(UrlsOf(SrcC)), Malformed}}

MainInit ==
  /\ docs \in MainWorlds
  /\ PLAYWRIGHT_AVAILABLE = FALSE
  /\ source \in {SrcB, <<>>}
  /\ args \in ArgSets
  /\ \A s \in DOMAIN docs \ Reach(docs, {source}) : docs[s] = LeafDoc(UrlsOf(s))
  /\ Started

SpecMain == MainInit /\ [][LocalNext]_vars

\* ------------------------------------------------- reference definitions
Range(q) == {q[i] : i \in 1..Len(q)}

IsIndex(s) == s \in DOMAIN docs /\ is_sitemap_index(docs[s])

\* The loc entries of a document that exists and parses.
Entries(s) ==
  IF s \in DOMAIN docs /\ docs[s].wellformed THEN loc_texts(docs[s]) ELSE <<>>

\* The resolution as a worklist: the sources still to resolve, in order, and
\* the sources already taken.  A source taken before contributes nothing, an
\* index is replaced by its children, any other document gives its entries.
RECURSIVE Resolve(_, _)
Resolve(todo, seen) ==
  IF todo = <<>> THEN <<>>
  ELSE LET s == Head(todo)
       IN  IF s \in seen THEN Resolve(Tail(todo), seen)
           ELSE IF IsIndex(s) THEN Resolve(Entries(s) \o Tail(todo), seen \cup {s})
           ELSE Entries(s) \o Resolve(Tail(todo), seen \cup {s})

\* s is the root of an acyclic index tree of documents that exist and parse:
\* no index below s lists one of its own ancestors.
RECURSIVE TreeShape(_, _)
TreeShape(s, path) ==
  /\ s \in DOMAIN docs
  /\ docs[s].wellformed
  /\ s \notin path
  /\ IsIndex(s) =>
       \A i \in 1..Len(Entries(s)) : TreeShape(Entries(s)[i], path \cup {s})

\* Every index document of the tree below s, s being at the given depth, is at
\* a depth below MAX_SITEMAP_DEPTH.
RECURSIVE WithinDepth(_, _)
WithinDepth(s, depth) ==
  IsIndex(s) =>
    /\ depth < MAX_SITEMAP_DEPTH
    /\ \A i \in 1..Len(Entries(s)) : WithinDepth(Entries(s)[i], depth + 1)

\* The top-level call has returned or raised to main.
Ended == pc = "returned"

\* The places (index document expanded, position) that list s.
Refs(s) ==
  {p \in (Range(fetched) \ failed) \X (1..Len(fetched)) :
     /\ IsIndex(p[1])
     /\ p[2] <= Len(Entries(p[1]))
     /\ Entries(p[1])[p[2]] = s}

DepthWarned == \E i \in 1..Len(warnings) : warnings[i].kind = "depth"

\* The documents fetched that do not parse.
MalformedFetched == {s \in Range(fetched) \ failed : ~docs[s].wellformed}

\* The number of nested index documents of a chain world.
ChainLen == Cardinality(DOMAIN docs) - 2

\* ------------------------------------------------------------------ claims
\* C1, as stated: for every acyclic index tree, whatever its depth, the result
\* is the concatenation in depth-first document order of the URLs of all leaf
\* documents reachable from the root.
C1_AnyShape ==
  (Ended /\ TreeShape(source, {}) /\ failed = {})
    => (raised = NoExc /\ urls = Resolve(<<source>>, {}))

\* C1, amended: for every acyclic index tree whose index documents are all at
\* a depth below MAX_SITEMAP_DEPTH and whose fetches all succeed, the result
\* is the concatenation in depth-first document order of the URLs of the leaf
\* documents reachable from the root, a document listed more than once
\* contributing at its first listing only.
C1_WithinDepth ==
  (Ended /\ TreeShape(source, {}) /\ WithinDepth(source, 0) /\ failed = {})
    => (raised = NoExc /\ urls = Resolve(<<source>>, {}))

\* C1 witness: a two-level tree, one leaf listed twice, resolved to its URLs.
C1_Witness ==
  /\ Ended
  /\ failed = {}
  /\ source = SrcB
  /\ docs[SrcB] = IndexDoc(<<SrcA, SrcC>>)
  /\ docs[SrcA] = IndexDoc(<<SrcC, SrcC>>)
  /\ docs[SrcC] = LeafDoc(UrlsOf(SrcC))
  /\ urls = UrlsOf(SrcC)

\* C2: within one top-level call read_sitemap is called at most once with any
\* given source identifier.
C2_FetchedOnce ==
  \A i, j \in 1..Len(fetched) : i < j => fetched[i] # fetched[j]

\* C2 witness: the call has ended and a source it fetched is listed at least
\* twice by the index documents it expanded.
C2_Witness ==
  /\ Ended
  /\ failed = {}
  /\ \E s \in Range(fetched) : Cardinality(Refs(s)) >= 2

\* C3 (result): when the call ends without a failed fetch and without a depth
\* cut, cycles or not, its result is the URL lists of the documents in
\* depth-first order, each at its first listing.
C3_Result ==
  (Ended /\ failed = {} /\ ~DepthWarned)
    => (raised = NoExc /\ urls = Resolve(<<source>>, {}))

\* C3: every run of main ends (extract_all_urls returns, also on cyclic
\* references), the activations on the stack being of pairwise distinct
\* sources, and the result holds the URLs of the branches outside the cycle.
C3_Terminates ==
  /\ <>(pc = "exit")
  /\ [](\A i, j \in 1..Len(stack) : i < j => stack[i].source # stack[j].source
                                            \/ (j = Len(stack) /\ stack[j].pc = "enter"))
  /\ []C3_Result

\* C3 witness: an index that lists itself and a leaf has been resolved to the
\* URLs of the leaf.
C3_Witness ==
  /\ pc = "exit"
  /\ failed = {}
  /\ source = SrcB
  /\ docs[SrcB] = IndexDoc(<<SrcB, SrcC>>)
  /\ docs[SrcC] = LeafDoc(UrlsOf(SrcC))
  /\ urls = UrlsOf(SrcC)

\* C4: an index document at depth >= MAX_SITEMAP_DEPTH is not expanded (no
\* activation is at a greater depth, none loops at that depth), contributes no
\* URL and raises nothing; the index documents above it are expanded.
C4_DepthLimit ==
  /\ \A k \in 1..Len(stack) :
       /\ stack[k].depth = k - 1
       /\ stack[k].depth <= MAX_SITEMAP_DEPTH
       /\ stack[k].pc = "loop" => stack[k].depth < MAX_SITEMAP_DEPTH
  /\ (Ended /\ docs \in ChainWorlds /\ failed = {}) =>
       /\ raised = NoExc
       /\ urls = (IF ChainLen <= MAX_SITEMAP_DEPTH
                    THEN UrlsOf(ChainSrc(ChainLen)) ELSE <<>>) \o UrlsOf(SrcB)
       /\ Len(fetched) = (IF ChainLen <= MAX_SITEMAP_DEPTH
                            THEN ChainLen + 1 ELSE MAX_SITEMAP_DEPTH + 1) + 1
       /\ DepthWarned <=> ChainLen > MAX_SITEMAP_DEPTH

\* C4 witness: a chain deeper than the limit has been resolved to the URLs of
\* the sibling alone.
C4_Witness ==
  /\ Ended
  /\ failed = {}
  /\ docs \in ChainWorlds
  /\ ChainLen > MAX_SITEMAP_DEPTH
  /\ DepthWarned
  /\ raised = NoExc
  /\ urls = UrlsOf(SrcB)

\* C5: when the fetch of the source fails, extract_all_urls warns and returns
\* the empty sequence instead of raising.
C5_FetchFailureIsEmpty ==
  (Ended /\ source \in failed)
    => /\ raised = NoExc
       /\ urls = <<>>
       /\ Warning("fetch", source) \in Range(warnings)

\* C6, as stated: a fetch failure of the top-level source is propagated out of
\* extract_all_urls to main.
C6_TopLevelPropagates ==
  (Ended /\ source \in failed) => raised # NoExc

\* C6, amended: a fetch failure of the top-level source ends the process with a
\* non-zero exit code; of a remote source it is caught in extract_all_urls,
\* which warns and returns the empty sequence, of a local source it is an
\* OSError that reaches main; a fetch failure of an index child never reaches
\* main.
C6_TopLevelFailure ==
  /\ (pc = "exit" /\ source \in failed) => exit_code = 1
  /\ (Ended /\ source \in failed /\ IsRemote(source)) =>
       /\ raised = NoExc
       /\ urls = <<>>
       /\ Warning("fetch", source) \in Range(warnings)
  /\ (Ended /\ source \in failed /\ ~IsRemote(source)) => raised.type = "OSError"
  /\ (Ended /\ source \notin failed) => raised = NoExc

\* C6 witness: the process has exited with 1 after the remote top-level source
\* failed, nothing having reached main.
C6_Witness ==
  /\ pc = "exit"
  /\ source = SrcA
  /\ SrcA \in failed
  /\ raised = NoExc
  /\ exit_code = 1

\* C7, as stated: a malformed document anywhere in the tree aborts the whole
\* resolution and no URL is returned.
C7_MalformedAborts ==
  (Ended /\ MalformedFetched # {}) => (raised # NoExc /\ urls = <<>>)

\* C7, amended: a malformed document is not fatal: it is taken for a leaf, the
\* Exit its extraction raises is caught in the same activation, which warns
\* and returns the empty sequence; nothing reaches main and the URLs of the
\* other branches are returned.
C7_MalformedIsEmpty ==
  /\ raised.type # "Exit"
  /\ Ended => \A s \in MalformedFetched : Warning("parse", s) \in Range(warnings)
  /\ (Ended /\ MalformedFetched # {} /\ failed = {} /\ ~DepthWarned)
       => (raised = NoExc /\ urls = Resolve(<<source>>, {}))

\* C7 witness: a malformed child and a leaf child, the URLs of the leaf returned.
C7_Witness ==
  /\ Ended
  /\ failed = {}
  /\ source = SrcA
  /\ docs[SrcA] = IndexDoc(<<SrcB, SrcC>>)
  /\ docs[SrcB] = Malformed
  /\ urls = UrlsOf(SrcC)
  /\ raised = NoExc

FallbackPcs == {"launch", "goto", "input", "capture"}

\* C8: at most 3 automated attempts; the fallback is entered only after 3
\* failed attempts and only with PLAYWRIGHT_AVAILABLE; without it read_sitemap
\* raises RequestException after the third failure and not before.
C8_Attempts ==
  /\ rs.requests <= 3
  /\ (rs.pc \in FallbackPcs \/ rs.browser # "none") =>
       /\ PLAYWRIGHT_AVAILABLE
       /\ rs.requests = 3
       /\ rs.failures = 3
  /\ (rs.pc = "done" /\ IsRemote(rs.source) /\ ~PLAYWRIGHT_AVAILABLE) =>
       /\ rs.result.kind = "raise" <=> (rs.requests = 3 /\ rs.failures = 3)
       /\ rs.result.kind = "raise" => rs.result.exc.type = "RequestException"
       /\ rs.result.kind = "return" => rs.failures = rs.requests - 1

\* C8 witness: the fallback has been entered after three failed attempts.
C8_Witness ==
  /\ rs.pc = "goto"
  /\ rs.requests = 3
  /\ rs.failures = 3
  /\ rs.last_exc = AttemptExc(1)
  /\ PLAYWRIGHT_AVAILABLE

\* C9: without the interactive capability, the error read_sitemap raises for a
\* remote source carries the cause of the last failed attempt.
C9_LastCause ==
  (rs.pc = "done" /\ IsRemote(rs.source) /\ ~PLAYWRIGHT_AVAILABLE
     /\ rs.result.kind = "raise")
    => rs.result.exc.cause = rs.last_failure.cause

\* The loc entries the extractor is to return: of the loc elements it selects,
\* the trimmed texts that are not empty.
NonBlankEntries(xml) ==
  LET found == findall(xml, loc_tag(xml))
      nonblank(e) == strip(e.text) # <<>>
      kept == SelectSeq(found, nonblank)
  IN  [i \in 1..Len(kept) |-> strip(kept[i].text)]

\* C10: the extractor returns the trimmed text of each loc element in document
\* order, without those whose text is absent, empty or whitespace-only: no
\* returned string is empty.
C10_NoBlankEntry ==
  (Ended /\ failed = {} /\ docs[source].wellformed /\ ~IsIndex(source))
    => /\ urls = NonBlankEntries(docs[source])
       /\ \A i \in 1..Len(urls) : urls[i] # <<>>

\* C11 as stated: main exits with 1 exactly when the source is missing without
\* interactive mode, no URL was extracted, or an error occurred during the
\* resolution or the output, the failure of one child that is caught with a
\* warning included.
C11_AnyError ==
  pc = "exit" =>
    /\ exit_code \in {0, 1}
    /\ exit_code = 1 <=>
         \/ (~args.interactive /\ source = <<>>)
         \/ urls = <<>>
         \/ raised # NoExc
         \/ out_exc # NoExc
         \/ failed # {}

\* C11 amended: main exits with 1 exactly when the source is missing without
\* interactive mode, no URL was extracted, or an error reached main unhandled
\* from the resolution or from the output; every other run exits with 0, the
\* runs in which the failure of a child was caught with a warning included.
C11_ExitCode ==
  pc = "exit" =>
    /\ exit_code \in {0, 1}
    /\ exit_code = 1 <=>
         \/ (~args.interactive /\ source = <<>>)
         \/ urls = <<>>
         \/ raised # NoExc
         \/ out_exc # NoExc

\* C11 witness: a run in which the read of one child failed and was caught,
\* the sibling gave its URLs, and main exits with 0.
C11_Witness ==
  /\ pc = "exit"
  /\ failed # {}
  /\ raised = NoExc
  /\ urls # <<>>
  /\ exit_code = 0

C13_ChildFailureStep ==
  (/\ Len(stack) >= 2
   /\ Top.pc = "read"
   /\ rs.pc = "done"
   /\ rs.result.kind = "raise"
   /\ stack' # stack)
    => LET caller == stack[Len(stack) - 1]
       IN  /\ Len(stack') = Len(stack) - 1
           /\ stack'[Len(stack')] =
                [caller EXCEPT !.i = caller.i + 1]
           /\ SubSeq(stack', 1, Len(stack') - 1) = SubSeq(stack, 1, Len(stack) - 2)
           /\ Len(warnings') = Len(warnings) + 1
           /\ warnings'[Len(warnings')].src = Top.source
           /\ pc' = "extract"
           /\ raised' = NoExc

C13_SiblingsResolved ==
  (Ended /\ raised = NoExc /\ ~DepthWarned)
    => \A s \in Range(fetched) \ failed :
         IsIndex(s) => Range(Entries(s)) \subseteq visited

C13_ChildFailureSkipped ==
  [][C13_ChildFailureStep]_vars /\ []C13_SiblingsResolved

\* C13 witness: SrcB lists SrcA and SrcC; SrcA gave its URLs, the file SrcC
\* could not be read, and the result keeps the URLs of SrcA.
C13_Witness ==
  /\ Ended
  /\ source = SrcB
  /\ fetched = <<SrcB, SrcA, SrcC>>
  /\ failed = {SrcC}
  /\ warnings = <<Warning("child", SrcC)>>
  /\ raised = NoExc
  /\ urls = UrlsOf(SrcA)

\* C14: one visited set serves the whole call tree.  An activation entered
\* for a source already in it, on whatever branch and at whatever depth,
\* returns the empty sequence at once: nothing is read, nothing is warned, the
\* caller's URLs stay as they are and its loop moves on.  The set only grows,
\* and no URL is in the result twice.
C14_LaterReferenceStep ==
  (/\ stack # <<>>
   /\ Top.pc = "enter"
   /\ Top.source \in visited
   /\ ~Top.visited_none
   /\ stack' # stack)
    => LET caller == stack[Len(stack) - 1]
       IN  /\ Len(stack') = Len(stack) - 1
           /\ stack'[Len(stack')] = [caller EXCEPT !.i = caller.i + 1]
           /\ warnings' = warnings
           /\ fetched' = fetched
           /\ visited' = visited
           /\ rs' = rs

C14_NoUrlTwice ==
  \A i, j \in 1..Len(urls) : i < j => urls[i] # urls[j]

C14_SharedVisited ==
  /\ [][C14_LaterReferenceStep /\ visited \subseteq visited']_vars
  /\ [](C14_NoUrlTwice /\ Range(fetched) = visited)

\* C14 witness: a leaf listed by two different index documents, at two depths,
\* gave its URLs once and nothing was warned.
C14_Witness ==
  /\ Ended
  /\ warnings = <<>>
  /\ failed = {}
  /\ \E s \in Range(fetched) :
       /\ ~IsIndex(s)
       /\ \E p, q \in Refs(s) : p[1] # q[1]
       /\ urls = UrlsOf(s)

\* C15: in the fallback page.content() is called only once input() has
\* returned, whether the navigation succeeded or failed; and a failed
\* navigation is not a failure of read_sitemap: the prompt follows it, and a
\* fallback that raises after it does so for the prompt or the capture.
C15_CaptureAfterConfirmation ==
  /\ rs.pc = "capture" => rs.confirmed
  /\ rs.captured => rs.confirmed
  /\ (rs.nav_failed /\ rs.pc # "done") => rs.pc \in {"input", "capture"}
  /\ (rs.nav_failed /\ rs.pc = "done" /\ rs.result.kind = "raise")
       => rs.result.exc.cause \in {"input", "content"}

\* C15 witness: the navigation failed, the user confirmed, and the content
\* captured afterwards is what read_sitemap returns.
C15_Witness ==
  /\ rs.pc = "done"
  /\ rs.nav_failed
  /\ rs.confirmed
  /\ rs.captured
  /\ rs.result.kind = "return"

\* C16: a backoff sleep happens only between two automated attempts: once the
\* retry loop is over, after a success or after the third failure, there has
\* been one sleep fewer than attempts.
C16_SleepOnlyBetweenAttempts ==
  (rs.requests > 0 /\ rs.pc \notin {"attempt", "sleep"})
    => Len(rs.sleeps) = rs.requests - 1

\* The namespace an element is in: that of its prefix, else the default one.
NamespaceOf(e, xmlns) == IF e.pfx # "" THEN e.pfx ELSE xmlns

\* The trimmed texts of the elements of a sequence that have a text.
TextsOf(es) ==
  LET truthy(e) == e.text # <<>>
      kept == SelectSeq(es, truthy)
  IN  [i \in 1..Len(kept) |-> strip(kept[i].text)]

\* The elements named loc, in any namespace.
EveryLoc(xml) ==
  LET isloc(e) == e.name = <<"loc">>
  IN  SelectSeq(xml.elems, isloc)

\* The elements named loc that are in the namespace of the root.
LocOfRootNamespace(xml) ==
  LET isloc(e) ==
        /\ e.name = <<"loc">>
        /\ NamespaceOf(e, xml.xmlns) = NamespaceOf(xml.root, xml.xmlns)
  IN  SelectSeq(xml.elems, isloc)

\* What each extractor gave for the document of the source: the result of the
\* call for a leaf, the children of the activation for an index.
Extracted ==
  IF IsIndex(source)
    THEN IF stack # <<>> /\ stack[1].pc = "loop"
           THEN {stack[1].child_sitemaps} ELSE {}
    ELSE IF Ended /\ failed = {} /\ docs[source].wellformed
           THEN {urls} ELSE {}

\* C17 as stated: the extractors collect every element whose local name is
\* loc, whatever namespaces the loc elements and the root carry.
C17_EveryLoc ==
  \A got \in Extracted : got = TextsOf(EveryLoc(docs[source]))

\* C17 amended: the extractors collect the elements named loc that are in the
\* namespace of the root (in none when the root is in none), and give for a
\* document without a default namespace what they give for the same document
\* with one declared.
C17_LocOfRootNamespace ==
  \A got \in Extracted :
    /\ got = TextsOf(LocOfRootNamespace(docs[source]))
    /\ docs[source].xmlns = ""
         => got = loc_texts([docs[source] EXCEPT !.xmlns = SitemapNS])

\* C17 witness: a leaf without a default namespace and with an unprefixed
\* root, holding a loc in no namespace and a prefixed loc: the first alone is
\* returned, as it is with the default namespace declared.
C17_Witness ==
  /\ Ended
  /\ docs[source].wellformed
  /\ ~IsIndex(source)
  /\ docs[source].xmlns = ""
  /\ docs[source].root.pfx = ""
  /\ docs[source].elems = <<Elem("", <<"loc">>, <<"u">>), Elem(PrefixNS, <<"loc">>, <<"u", " ", "v">>)>>
  /\ urls = << <<"u">> >>
  /\ loc_texts([docs[source] EXCEPT !.xmlns = SitemapNS]) = << <<"u">> >>

\* C18: the visited set lives for one top-level call.  A second top-level call
\* on the same source, made without a visited argument over the same documents,
\* reads the source again and, when the reads succeed in both calls,
\* reads the same documents and returns the same result as the first.
C18_SecondCallSame ==
  (Ended /\ first # <<>>)
    => /\ fetched # <<>>
       /\ fetched[1] = source
       /\ first[1].fetched[1] = source
       /\ (failed = {} /\ first[1].failed = {})
            => /\ urls = first[1].urls
               /\ raised = first[1].raised
               /\ fetched = first[1].fetched
               /\ warnings = first[1].warnings

\* C18 witness: both calls have ended, on an index whose child gave URLs both
\* times.
C18_Witness ==
  /\ Ended
  /\ first # <<>>
  /\ IsIndex(source)
  /\ failed = {}
  /\ first[1].failed = {}
  /\ urls # <<>>
  /\ urls = first[1].urls

\* The sources listed at depth k: the source of the call at depth 0, then the
\* entries of the index documents read at the depth before.
RECURSIVE Level(_)
Level(k) ==
  IF k = 0 THEN {source}
  ELSE UNION {Range(Entries(p)) :
                p \in {q \in Level(k - 1) : q \in Range(fetched) \ failed /\ IsIndex(q)}}

\* The leaves that may give URLs: read without failure, not an index, and
\* listed under index documents that are all at a depth below the limit.
GivingLeaves ==
  {s \in Range(fetched) \ failed :
     /\ ~IsIndex(s)
     /\ \E k \in 0..MAX_SITEMAP_DEPTH : s \in Level(k)}

\* C19: every URL of the result is a loc text of a document that was read
\* without failure, is a leaf, and hangs under index documents each at a depth
\* below MAX_SITEMAP_DEPTH; no loc entry of an index document that was read is
\* in the result.
C19_UrlsFromLeaves ==
  Ended =>
    /\ \A i \in 1..Len(urls) : \E s \in GivingLeaves : urls[i] \in Range(Entries(s))
    /\ \A p \in Range(fetched) \ failed :
         IsIndex(p) => Range(Entries(p)) \cap Range(urls) = {}

\* C19 witness: a chain of MAX_SITEMAP_DEPTH index documents was resolved: the
\* leaf at depth MAX_SITEMAP_DEPTH and the sibling of the first level gave the
\* result.
C19_Witness ==
  /\ Ended
  /\ docs \in ChainWorlds
  /\ ChainLen = MAX_SITEMAP_DEPTH
  /\ GivingLeaves = {ChainSrc(MAX_SITEMAP_DEPTH), SrcB}
  /\ urls = UrlsOf(ChainSrc(MAX_SITEMAP_DEPTH)) \o UrlsOf(SrcB)

====
